---- MODULE Spec2Model ----
(***************************************************************************)
(* stochatreat: stratified random assignment of units to treatment arms.   *)
(*                                                                         *)
(* The model follows the refactored classes of src/src/stochatreat:        *)
(*   DataPreparator.prepare   (preparation.py)                             *)
(*   TreatmentSpec.__init__   (treatment.py)                               *)
(*   the three misfit handlers and _extract_misfits (misfit.py)            *)
(*   TreatmentAssigner.assign (treatment.py)                               *)
(* and the function stochatreat (stochatreat.py), which does the same work *)
(* in one body, step by step.                                              *)
(*                                                                         *)
(* A data frame is a sequence of rows; a row is a record that carries its  *)
(* row label (the pandas index), its identifier and its stratum.  Random   *)
(* draws are nondeterministic choices recorded in the state: a call of     *)
(* rng.rand(n) is the ranking of its n values (ties have probability 0),   *)
(* a call of rng.rand(b, lcm) followed by argsort is b permutations.       *)
(* Probabilities are exact fractions <<numerator, denominator>>: the       *)
(* floating-point value nearest to such a fraction is mapped back to it by *)
(* Fraction(prob).limit_denominator().                                     *)
(***************************************************************************)
EXTENDS Integers, Sequences, FiniteSets, TLC

VARIABLES
    pc,           \* position in the pipeline
    err,          \* the exception raised, "" if none
    data,         \* the caller's raw frame: rows [lab, id, strat]
    idx_col,      \* the idx_col argument of DataPreparator
    stratum_cols, \* the stratum_cols argument of DataPreparator
    size,         \* the size argument of DataPreparator, NoSize if None
    prepared,     \* the table returned by prepare: rows [lab, id, sid]
    treats,       \* the treats argument of TreatmentSpec
    probs,        \* the probs argument of TreatmentSpec, NoProbs if None
    spec,         \* the TreatmentSpec constructed from them
    strategy,     \* the misfit strategy handed to make_misfit_handler
    handled,      \* the table returned by the misfit handler
    out,          \* the table returned by assign: rows [lab, id, sid, treat]
    sample_draw,  \* the draw of x.sample in prepare, by group size
    misfit_draw,  \* the ranks of rng.rand(len(data)) in _extract_misfits
    perm_draw,    \* the rows of argsort(rng.rand(b, lcm)) in assign
    drawn,        \* the number of calls so far that drew random numbers
    denominators, \* the denominators get_lcm_prob_denominators has found
    lcm_prob_denominators, \* the value get_lcm_prob_denominators returned
    mask_counts,  \* the counts of the arms handed to np.repeat
    units,        \* the rows of a stratum that is given by its size alone
    arm_counts,   \* how many of them assign gives to every arm
    argument,     \* the frame passed to the last handle or assign, after the call
    repeated      \* the table a second assign with the same spec returned

vars == <<pc, err, data, idx_col, stratum_cols, size, prepared, treats, probs,
          spec, strategy, handled, out, sample_draw, misfit_draw, perm_draw,
          drawn, denominators, lcm_prob_denominators, mask_counts,
          units, arm_counts, argument, repeated>>

\* the caller's frame object and the result of a repeated call
call_vars == <<argument, repeated>>

\* the results of the functions applied one by one to a probability vector
ratio_vars == <<denominators, lcm_prob_denominators, mask_counts>>

\* a stratum given by its size, and the counts of its arms
share_vars == <<units, arm_counts>>

----------------------------------------------------------------------------
(* Bounds of the model *)

\* most rows of a raw frame handed to DataPreparator
MaxRows == 3
\* most rows of a table handed directly to a misfit handler
MaxTableRows == 4
PairStratumRows == 3

\* the values of the stratification column
StratumValues == {1, 2, 3}
\* the stratum ids of a table handed directly to a misfit handler
TableStrata == {0, 1}
\* the numbers of treatments tried
TreatChoices == {1, 2, 3}
\* the probs arguments tried, each probability <<numerator, denominator>> as
\* the caller writes it (2/4 is the float 0.5); the last does not sum to 1
NoProbs == <<>>
ProbChoices == {NoProbs,
                << <<1, 3>>, <<2, 3>> >>,
                << <<2, 4>>, <<2, 4>> >>,
                << <<1, 1>>, <<0, 1>> >>,
                << <<1, 10>>, <<2, 10>> >>}
\* the idx_col and stratum_cols arguments tried
IdxColChoices == {"<None>", "id", "not_a_col", "<int>"}
StratumColChoices == {"stratum", "not_a_col"}
\* the misfit strategies tried
StrategyChoices == {"stratum", "global", "none", "bogus"}

\* the sizes of a large single stratum, and the probability vectors tried on
\* it: denominators of 2, 3, 10 and 1000, and two vectors of six decimals
LargeStratum == 10000
MaxExtraUnits == 2
LargeStrata == {LargeStratum + k : k \in 0..MaxExtraUnits}
ShareVectors ==
    {<< <<1, 2>>, <<1, 2>> >>,
     << <<1, 3>>, <<2, 3>> >>,
     << <<1, 10>>, <<9, 10>> >>,
     << <<499, 1000>>, <<501, 1000>> >>,
     << <<499999, 1000000>>, <<500001, 1000000>> >>,
     << <<142857, 1000000>>, <<857143, 1000000>> >>}

\* the probability vectors handed to get_lcm_prob_denominators on its own:
\* 1/t for up to MaxArms arms, the pairs n/d, (d-n)/d for d up to
\* MaxPairDenominator as written (2/4 is not reduced), and vectors of six
\* decimal places and of denominators beyond max_denominator
MaxArms == 8
MaxPairDenominator == 12
ProbVectors ==
    {[i \in 1..t |-> <<1, t>>] : t \in 1..MaxArms}
    \cup UNION {{<< <<n, d>>, <<d - n, d>> >> : n \in 1..(d - 1)} :
                  d \in 2..MaxPairDenominator}
    \cup {<< <<1, 2>>, <<1, 3>>, <<1, 6>> >>,
          << <<1, 7>>, <<6, 7>> >>,
          << <<142857, 1000000>>, <<857143, 1000000>> >>,
          << <<1, 1999999>>, <<999999, 1999999>>, <<999999, 1999999>> >>}

----------------------------------------------------------------------------
(* Values *)

\* pd.NA in the stratum_id column, and a missing treat
NA == -2
\* the stratum id of the pooled misfits
Sentinel == -1
\* size=None
NoSize == -1
\* max_denominator of Fraction.limit_denominator()
MaxDenominator == 1000000
MIN_ROW_N == 2

NoSpec == [treats |-> 0, probs |-> <<>>, lcm |-> 0, mask |-> <<>>]

----------------------------------------------------------------------------
(* Sequences and arithmetic *)

Abs(x) == IF x < 0 THEN -x ELSE x

Max(a, b) == IF a >= b THEN a ELSE b

MaxOf(S) == CHOOSE x \in S : \A y \in S : y <= x

RECURSIVE Gcd(_, _)
Gcd(a, b) == IF b = 0 THEN a ELSE Gcd(b, a % b)

Lcm2(a, b) == (a \div Gcd(a, b)) * b

RECURSIVE LcmSeq(_)
LcmSeq(s) == IF s = <<>> THEN 1 ELSE Lcm2(Head(s), LcmSeq(Tail(s)))

RECURSIVE SumSeq(_)
SumSeq(s) == IF s = <<>> THEN 0 ELSE Head(s) + SumSeq(Tail(s))

RECURSIVE Flatten(_)
Flatten(ss) == IF ss = <<>> THEN <<>> ELSE Head(ss) \o Flatten(Tail(ss))

\* the injective sequences of length k over 1..m
Arrangements(m, k) ==
    {s \in [1..k -> 1..m] : \A i, j \in 1..k : i # j => s[i] # s[j]}

PermSeqs(n) == Arrangements(n, n)

\* the position every index of the sequence key takes in ascending order of
\* the keys, equal keys in index order (\o <<>> enumerates the sequence once)
IndexPositions(key) ==
    [i \in DOMAIN key |-> 1 + Cardinality({j \in DOMAIN key :
                                  \/ key[j] < key[i]
                                  \/ key[j] = key[i] /\ j < i})] \o <<>>

\* the index at every position
InversePermutation(pos) ==
    [p \in DOMAIN pos |-> CHOOSE i \in DOMAIN pos : pos[i] = p] \o <<>>

\* the indices of the sequence key in ascending order of their keys, equal
\* keys in index order; the bound variables hold key and pos evaluated once
SortedIndices(key) ==
    CHOOSE ord \in {InversePermutation(pos) :
                        pos \in {IndexPositions(k) : k \in {key \o <<>>}}} : TRUE

\* numpy's round: the integer nearest to a/b, halves to the even neighbour
RoundHalfEven(a, b) ==
    LET q == a \div b
        r == a % b
    IN  IF 2 * r < b THEN q
        ELSE IF 2 * r > b THEN q + 1
        ELSE IF q % 2 = 0 THEN q ELSE q + 1

RECURSIVE MulDiv(_, _, _)
\* <<quotient, remainder>> of a*b by c for 0 <= a, 0 <= b, 0 < c, by halving
\* b, so that no intermediate value exceeds 2*c + a
MulDiv(a, b, c) ==
    IF b = 0 THEN <<0, 0>>
    ELSE LET h  == MulDiv(a, b \div 2, c)
             q2 == 2 * h[1] + (2 * h[2]) \div c
             r2 == (2 * h[2]) % c
             r3 == r2 + (IF b % 2 = 1 THEN a % c ELSE 0)
         IN  <<q2 + (IF b % 2 = 1 THEN a \div c ELSE 0) + r3 \div c, r3 % c>>

\* numpy's round of the product a*b/c
RoundProduct(a, b, c) ==
    LET qr == CHOOSE x \in {MulDiv(a, b, c)} : TRUE
    IN  IF 2 * qr[2] < c THEN qr[1]
        ELSE IF 2 * qr[2] > c THEN qr[1] + 1
        ELSE IF qr[1] % 2 = 0 THEN qr[1] ELSE qr[1] + 1

\* the stratum ids of a table, and the rows of one stratum
StrataOf(t) == {t[k].sid : k \in DOMAIN t}

StratumSize(t, s) == Cardinality({k \in DOMAIN t : t[k].sid = s})

IdsOf(t) == {t[k].id : k \in DOMAIN t}

OfStratum(t, s) == SelectSeq(t, LAMBDA r : r.sid = s)

RECURSIVE SetToSeq(_)
\* the elements of a set of integers in ascending order
SetToSeq(S) ==
    IF S = {} THEN <<>>
    ELSE LET m == CHOOSE x \in S : \A y \in S : x <= y
         IN  <<m>> \o SetToSeq(S \ {m})

----------------------------------------------------------------------------
(* treatment.py: the probability ratio and the treatment specification *)

\* Fraction(prob) without the reduction to lowest terms
Fraction_unreduced(p) == p

\* Fraction(prob): the fraction in lowest terms
Fraction(p) ==
    LET g == Gcd(p[1], p[2])
    IN  <<p[1] \div g, p[2] \div g>>

RECURSIVE limit_denominator_loop(_, _, _, _, _, _, _)
\* the continued-fraction loop of Fraction.limit_denominator; its last test,
\* 2*d*(q0+k*q1) <= denominator, is written as a quotient to stay in range
limit_denominator_loop(p0, q0, p1, q1, n, d, f) ==
    LET a  == n \div d
        q2 == q0 + a * q1
        k  == (MaxDenominator - q0) \div q1
    IN  IF q2 > MaxDenominator
        THEN IF d <= f[2] \div (2 * (q0 + k * q1))
             THEN <<p1, q1>>
             ELSE <<p0 + k * p1, q0 + k * q1>>
        ELSE limit_denominator_loop(p1, q1, p0 + a * p1, q2, d, n - a * d, f)

\* Fraction.limit_denominator(): the closest fraction whose denominator is
\* at most MaxDenominator
limit_denominator(f) ==
    IF f[2] <= MaxDenominator THEN f
    ELSE limit_denominator_loop(0, 1, 1, 0, f[1], f[2], f)

\* [Fraction(prob).limit_denominator().denominator for prob in probs]
prob_denominators(ps) ==
    [i \in DOMAIN ps |-> limit_denominator(Fraction(ps[i]))[2]]

\* the LCM of the denominators of the probabilities
get_lcm_prob_denominators(ps) == LcmSeq(prob_denominators(ps))

\* probs=None: 1/treats for every arm
uniform_probs(t) == [i \in 1..t |-> <<1, t>>]

\* the numerator of the sum of the probabilities over the denominator den
sum_numerator(ps, den) ==
    SumSeq([i \in DOMAIN ps |-> ps[i][1] * (den \div ps[i][2])])

\* math.isclose(a/b, 1, rel_tol=1e-9) for a, b > 0
isclose_to_one(a, b) ==
    a = b \/ Abs(a - b) <= Max(a, b) \div 1000000000

\* a sum that is never checked
probs_sum_unchecked(ps) == TRUE

\* self.probs.sum() is close to 1
probs_sum_to_one(ps) ==
    LET den == LcmSeq([i \in DOMAIN ps |-> ps[i][2]])
    IN  isclose_to_one(sum_numerator(ps, den), den)

\* the ValueError raised by TreatmentSpec.__init__, "" if none
TreatmentSpec_error(t, ps) ==
    IF ps = NoProbs THEN ""
    ELSE IF ~probs_sum_to_one(ps) THEN "ValueError: probabilities must add up to 1"
    ELSE IF Len(ps) # t THEN "ValueError: number of probabilities"
    ELSE ""

\* np.repeat(treatment_ids, counts)
repeat(ids, counts) ==
    Flatten([i \in DOMAIN ids |-> [j \in 1..counts[i] |-> ids[i]]])

\* a mask that repeats the arms by the counts of the probabilities read in
\* reverse order
treat_mask_reversed_counts(t, ps, lcm) ==
    repeat([i \in 1..t |-> i - 1],
           [i \in 1..t |-> RoundHalfEven(lcm * ps[t + 1 - i][1], ps[t + 1 - i][2])])

\* (lcm * probs).round().astype(int): how often every arm is repeated
treat_mask_counts(t, ps, lcm) ==
    [i \in 1..t |-> RoundProduct(lcm, ps[i][1], ps[i][2])]

\* the treatment mask: arm i (lcm * probs[i]).round() times
treat_mask(t, ps, lcm) ==
    repeat([i \in 1..t |-> i - 1], treat_mask_counts(t, ps, lcm))

\* the TreatmentSpec of valid arguments
TreatmentSpec(t, ps) ==
    LET p   == IF ps = NoProbs THEN uniform_probs(t) ELSE ps
        lcm == get_lcm_prob_denominators(p)
    IN  [treats |-> t, probs |-> p, lcm |-> lcm, mask |-> treat_mask(t, p, lcm)]

----------------------------------------------------------------------------
(* preparation.py: validation, stratum ids and sub-sampling *)

\* idx_col=None: the row labels become the identifier column "index" and the
\* rows are relabelled 0, 1, ...
reset_index(d) ==
    [k \in DOMAIN d |-> [lab |-> k - 1, id |-> d[k].lab, strat |-> d[k].strat]]

\* the frame whose identifier column is resolved
resolve_idx_col(d, ic) == IF ic = "<None>" THEN reset_index(d) ELSE d

\* a check for duplicates that finds none
has_duplicated_ids_never(d) == FALSE

\* data[idx_col].duplicated(keep=False).sum() > 0
has_duplicated_ids(d) ==
    \E i, j \in DOMAIN d : i # j /\ d[i].id = d[j].id

\* the exception raised by the checks of prepare, "" if none
prepare_error(d, ic, sc, sz) ==
    IF Len(d) = 0 THEN "ValueError: dataframe is empty"
    ELSE IF Len(d) < MIN_ROW_N THEN "ValueError: at least 2 rows"
    ELSE IF ic = "<int>" THEN "TypeError: idx_col has to be a string"
    ELSE IF sc = "not_a_col" \/ ic = "not_a_col" THEN "KeyError: columns not found"
    ELSE IF has_duplicated_ids(resolve_idx_col(d, ic))
         THEN "ValueError: idx_col not unique"
    ELSE IF sz # NoSize /\ sz > Len(d) THEN "ValueError: size larger than universe"
    ELSE ""

\* the frame left in the order it came in
sort_by_idx_col_skipped(d) == d

\* data.sort_values(by=idx_col)
sort_by_idx_col(d) ==
    LET ord == SortedIndices([k \in DOMAIN d |-> d[k].id])
    IN  [p \in DOMAIN d |-> d[ord[p]]]

\* cumcount() in place of ngroup(): the position of the row
ngroup_as_cumcount(d, k) == k - 1

\* group numbers that start at 1
ngroup_one_based(d, k) ==
    1 + Cardinality({v \in {d[j].strat : j \in DOMAIN d} : v < d[k].strat})

\* groupby(stratum_cols).ngroup(): the rank of the row's stratification value
\* among the distinct values present
ngroup(d, k) ==
    Cardinality({v \in {d[j].strat : j \in DOMAIN d} : v < d[k].strat})

\* the sorted frame reduced to [idx_col, stratum_id]
with_stratum_id(d) ==
    LET s == sort_by_idx_col(d)
    IN  [k \in DOMAIN s |-> [lab |-> s[k].lab, id |-> s[k].id, sid |-> ngroup(s, k)]]

\* one row more than the rounded share
reduced_size_plus_one(m, n, sz) == RoundHalfEven(m * sz, n) + 1

\* (strata_fracs * size).round() for the stratum with m of the n rows
reduced_size(m, n, sz) == RoundHalfEven(m * sz, n)

\* the group sizes of a table
GroupSizes(t) == {StratumSize(t, s) : s \in StrataOf(t)}

\* the outcomes of x.sample(n=reduced_sizes[x.name], random_state=seed): by
\* group size m (every group is sampled with a fresh generator of the same
\* seed) the positions drawn, in the order drawn; none if a group is asked
\* for more rows than it has
SampleDraws(t, sz) ==
    LET Ms == GroupSizes(t)
        need(m) == reduced_size(m, Len(t), sz)
    IN  {f \in [Ms -> UNION {Arrangements(m, need(m)) : m \in Ms}] :
            \A m \in Ms : f[m] \in Arrangements(m, need(m))}

\* groupby("stratum_id").apply(sample): the sampled rows, group after group
subsample(t, sd) ==
    LET keys == SetToSeq(StrataOf(t))
    IN  Flatten([i \in DOMAIN keys |->
            LET g    == OfStratum(t, keys[i])
                pick == sd[Len(g)]
            IN  [j \in DOMAIN pick |-> g[pick[j]]]])

----------------------------------------------------------------------------
(* misfit.py: the misfit handlers *)

\* the rows of t at the positions of the set S, in order
RowsAt(t, S) ==
    LET idx == SetToSeq(S)
    IN  [j \in DOMAIN idx |-> t[idx[j]]]

\* data.sort_values(["stratum_id", "_random"]) where row k carries the
\* random value of rank r[k]
sort_by_stratum_and_random(t, r) ==
    LET n   == Len(t)
        ord == SortedIndices([k \in DOMAIN t |-> t[k].sid * (n + 1) + r[k]])
    IN  [p \in DOMAIN t |-> t[ord[p]]]

\* groupby("stratum_id").cumcount() of the row at position p
group_rank(t, p) == Cardinality({q \in 1..(p - 1) : t[q].sid = t[p].sid})

\* group_ranks <= (group_sizes % lcm): one row too many
is_misfit_off_by_one(t, p, lcm) ==
    group_rank(t, p) <= (StratumSize(t, t[p].sid) % lcm)

\* group_ranks < (group_sizes % lcm)
is_misfit(t, p, lcm) == group_rank(t, p) < (StratumSize(t, t[p].sid) % lcm)

\* data["_random"] = rng.rand(len(data)) on the copy of the data
with_random(t, r) ==
    [k \in DOMAIN t |-> [lab |-> t[k].lab, id |-> t[k].id, sid |-> t[k].sid,
                         _random |-> r[k]]]

\* the temporary column left in the result
drop_random_kept(t) == t

\* .drop(columns=["_random"])
drop_random(t) ==
    [k \in DOMAIN t |-> [lab |-> t[k].lab, id |-> t[k].id, sid |-> t[k].sid]]

\* _extract_misfits: (good-form rows, misfit rows)
_extract_misfits(t, lcm, r) ==
    LET s == sort_by_stratum_and_random(with_random(t, r), r)
    IN  [good   |-> drop_random(RowsAt(s, {p \in DOMAIN s : ~is_misfit(s, p, lcm)})),
         misfit |-> drop_random(RowsAt(s, {p \in DOMAIN s : is_misfit(s, p, lcm)}))]

\* a handler that returns the rows in reverse order
StratumMisfitHandler_handle_reversed(t, lcm, r) ==
    [k \in DOMAIN t |-> t[Len(t) + 1 - k]]

\* StratumMisfitHandler.handle returns the data as it is
StratumMisfitHandler_handle(t, lcm, r) == t

\* the sentinel written to every row of the concatenated frame
GlobalMisfitHandler_handle_relabel_all(t, lcm, r) ==
    LET x == _extract_misfits(t, lcm, r)
    IN  [k \in DOMAIN (x.good \o x.misfit) |->
            [(x.good \o x.misfit)[k] EXCEPT !.sid = Sentinel]]

\* GlobalMisfitHandler.handle: the misfits get the sentinel stratum id and
\* are appended to the good-form rows
GlobalMisfitHandler_handle(t, lcm, r) ==
    LET x == _extract_misfits(t, lcm, r)
    IN  x.good \o [k \in DOMAIN x.misfit |-> [x.misfit[k] EXCEPT !.sid = Sentinel]]

\* data.loc[misfit_data.index, "stratum_id"] = pd.NA selects rows by label
NoneMisfitHandler_handle(t, lcm, r) ==
    LET x    == _extract_misfits(t, lcm, r)
        all  == x.good \o x.misfit
        labs == {x.misfit[k].lab : k \in DOMAIN x.misfit}
    IN  [k \in DOMAIN all |->
            IF all[k].lab \in labs THEN [all[k] EXCEPT !.sid = NA] ELSE all[k]]

\* a factory that hands out the mark-unassigned handler for "global"
handler_handle_global_as_none(st, t, lcm, r) ==
    CASE st = "stratum" -> StratumMisfitHandler_handle(t, lcm, r)
      [] st = "global"  -> NoneMisfitHandler_handle(t, lcm, r)
      [] st = "none"    -> NoneMisfitHandler_handle(t, lcm, r)

\* make_misfit_handler(strategy).handle(t, lcm, seed)
handler_handle(st, t, lcm, r) ==
    CASE st = "stratum" -> StratumMisfitHandler_handle(t, lcm, r)
      [] st = "global"  -> GlobalMisfitHandler_handle(t, lcm, r)
      [] st = "none"    -> NoneMisfitHandler_handle(t, lcm, r)

\* the outcomes of rng.rand(len(data)): the rank of every row's value among
\* the values of the rows of its stratum, which is all the sort within strata
\* reads of them; the keep-in-stratum handler draws nothing
MisfitDraws(st, t) ==
    IF st = "stratum" THEN {<<>>}
    ELSE {r \in [DOMAIN t -> 1..Len(t)] :
            \A k \in DOMAIN t :
                /\ r[k] <= StratumSize(t, t[k].sid)
                /\ \A j \in DOMAIN t : (j # k /\ t[j].sid = t[k].sid) => r[j] # r[k]}

----------------------------------------------------------------------------
(* treatment.py: TreatmentAssigner.assign *)

\* the number of fake rows of a stratum of m rows
pad_count(m, lcm) == (lcm - (m % lcm)) % lcm

\* data.groupby("stratum_id").size(): the keys, without the null key
groupby_keys(t) == SetToSeq(StrataOf(t) \ {NA})

\* fake_rep: pad_count fake rows per stratum, without identifier
fake_rep(t, lcm) ==
    LET keys == groupby_keys(t)
        rows == Flatten([i \in DOMAIN keys |->
                    [j \in 1..pad_count(StratumSize(t, keys[i]), lcm) |-> keys[i]]])
    IN  [k \in DOMAIN rows |-> [lab |-> k - 1, id |-> NA, sid |-> rows[k], fake |-> 1]]

\* the table with its fake column set to 0 and its rows relabelled 0, 1, ...
with_fake_column_relabelled(t) ==
    [k \in DOMAIN t |-> [lab |-> k - 1, id |-> t[k].id, sid |-> t[k].sid, fake |-> 0]]

\* the table with its fake column set to 0
with_fake_column(t) ==
    [k \in DOMAIN t |-> [lab |-> t[k].lab, id |-> t[k].id, sid |-> t[k].sid, fake |-> 0]]

\* the concatenated frame left unsorted
sort_by_stratum_skipped(t) == t

\* sort_values(by="stratum_id", kind="stable"): nulls last
sort_by_stratum(t) ==
    LET last == 1 + MaxOf(StrataOf(t) \cup {0})
        ord  == SortedIndices([k \in DOMAIN t |->
                                  IF t[k].sid = NA THEN last ELSE t[k].sid])
    IN  [p \in DOMAIN t |-> t[ord[p]]]

\* pd.concat([data, fake_rep]).sort_values(by="stratum_id", kind="stable")
padded(t, lcm) == sort_by_stratum(with_fake_column(t) \o fake_rep(t, lcm))

\* the outcomes of np.argsort(rng.rand(b, lcm), axis=1): b permutations
PermDraws(b, lcm) == [1..b -> PermSeqs(lcm)]

\* spec.treat_mask[permutations] raises IndexError
mask_index_error(mask, perms) ==
    \E b \in DOMAIN perms : \E j \in DOMAIN perms[b] : perms[b][j] > Len(mask)

\* spec.treat_mask[permutations].flatten(order="C")
mask_labels(mask, perms) ==
    Flatten([b \in DOMAIN perms |-> [j \in DOMAIN perms[b] |-> mask[perms[b][j]]]])

\* the fake rows kept in the output
drop_fake_kept(t, labels) ==
    [k \in DOMAIN t |-> [lab |-> t[k].lab, id |-> t[k].id,
                         sid |-> t[k].sid, treat |-> labels[k]]]

\* data[data["fake"] == 0].drop(columns=["fake"]) with the treat column
drop_fake(t, labels) ==
    LET rows == [k \in DOMAIN t |-> [lab |-> t[k].lab, id |-> t[k].id,
                                     sid |-> t[k].sid, treat |-> labels[k]]]
    IN  RowsAt(rows, {k \in DOMAIN t : t[k].fake = 0})

\* the exception raised by assign, "" if none
assign_error(t, sp, perms) ==
    IF mask_index_error(sp.mask, perms) THEN "IndexError: treat_mask"
    ELSE IF Len(perms) * sp.lcm # Len(padded(t, sp.lcm))
         THEN "ValueError: length of values does not match length of index"
    ELSE ""

\* the table returned by assign
assign_result(t, sp, perms) ==
    drop_fake(padded(t, sp.lcm), mask_labels(sp.mask, perms))

\* the part of the mask that permutations of range(lcm) can index: of the
\* counts ms, the entries that fall within the first lcm places
indexable_counts(ms, lcm) ==
    [i \in DOMAIN ms |->
        LET before == SumSeq(SubSeq(ms, 1, i - 1))
        IN  IF before >= lcm THEN 0
            ELSE IF before + ms[i] > lcm THEN lcm - before ELSE ms[i]]

RECURSIVE RemainderCounts(_, _)
\* the arms r rows can get from one permutation of a mask with the counts
\* ms, as counts per arm: at most ms[i] of arm i, r in all
RemainderCounts(ms, r) ==
    IF Len(ms) = 1 THEN (IF r <= ms[1] THEN {<<r>>} ELSE {})
    ELSE UNION {{<<x>> \o rest : rest \in RemainderCounts(Tail(ms), r - x)} :
                    x \in 0..(IF r < ms[1] THEN r ELSE ms[1])}

----------------------------------------------------------------------------
(* stochatreat.py: the function stochatreat, which does all of it in one body *)

\* get_args(MisfitStrategy)
MisfitStrategy == {"stratum", "global"}

\* the checks of the data skipped for the size argument
stochatreat_data_error_size_unchecked(d, ic, sc, sz) ==
    IF Len(d) = 0 THEN "ValueError: dataframe is empty"
    ELSE IF Len(d) < MIN_ROW_N THEN "ValueError: at least 2 rows"
    ELSE IF ic = "<int>" THEN "TypeError: idx_col has to be a string"
    ELSE IF ic = "not_a_col" THEN "KeyError: columns not found"
    ELSE IF has_duplicated_ids(resolve_idx_col(d, ic))
         THEN "ValueError: idx_col not unique"
    ELSE IF sc = "not_a_col" THEN "KeyError: columns not found"
    ELSE ""

\* the exception raised between the check for an empty frame and the group
\* numbering, "" if none: data[idx_col] raises for a missing identifier
\* column before the duplicates are looked for, groupby(stratum_cols) for a
\* missing stratum column after the size is checked
stochatreat_data_error(d, ic, sc, sz) ==
    IF Len(d) = 0 THEN "ValueError: dataframe is empty"
    ELSE IF Len(d) < MIN_ROW_N THEN "ValueError: at least 2 rows"
    ELSE IF ic = "<int>" THEN "TypeError: idx_col has to be a string"
    ELSE IF ic = "not_a_col" THEN "KeyError: columns not found"
    ELSE IF has_duplicated_ids(resolve_idx_col(d, ic))
         THEN "ValueError: idx_col not unique"
    ELSE IF sz # NoSize /\ sz > Len(d) THEN "ValueError: size larger than universe"
    ELSE IF sc = "not_a_col" THEN "KeyError: columns not found"
    ELSE ""

\* np.repeat(treatment_ids, (lcm * probs_np).astype(int)): the products are
\* truncated, not rounded
treat_mask_truncated(t, ps, lcm) ==
    repeat([i \in 1..t |-> i - 1],
           [i \in 1..t |-> (lcm * ps[i][1]) \div ps[i][2]])

\* the outcomes of x.sample(n=x.shape[0] % lcm, random_state=seed): by group
\* size m the positions drawn, in the order drawn
GlobalMisfitDraws(t, lcm) ==
    LET Ms == GroupSizes(t)
    IN  {f \in [Ms -> UNION {Arrangements(m, m % lcm) : m \in Ms}] :
            \A m \in Ms : f[m] \in Arrangements(m, m % lcm)}

\* the rows sampled as misfits get the stratum id -1 and follow the rows that
\* data.drop(index=misfit_data.index) leaves, which drops by row label
separate_global_misfits(t, sd) ==
    LET picked == subsample(t, sd)
        labs   == {picked[k].lab : k \in DOMAIN picked}
    IN  RowsAt(t, {k \in DOMAIN t : t[k].lab \notin labs})
        \o [k \in DOMAIN picked |-> [picked[k] EXCEPT !.sid = Sentinel]]

\* the orders one group of rows can come out in; its fake rows are equal in
\* every column read afterwards, so they are left in order among themselves
GroupOrders(g) ==
    {[k \in DOMAIN g |-> g[a[k]]] :
        a \in {b \in PermSeqs(Len(g)) :
                  \A i, j \in DOMAIN g :
                      (i < j /\ g[b[i]].fake = 1 /\ g[b[j]].fake = 1) => b[i] < b[j]}}

RECURSIVE SortsOfGroups(_, _)
\* the tables made of the groups of the keys, group after group, each group
\* in any order
SortsOfGroups(t, keys) ==
    IF keys = <<>> THEN {<<>>}
    ELSE {h \o r : h \in GroupOrders(OfStratum(t, Head(keys))),
                   r \in SortsOfGroups(t, Tail(keys))}

\* sort_values(by="stratum_id") with the default quicksort, which is not
\* stable: rows of equal stratum id come out in an order the build decides
sort_by_stratum_unstable(t) == SortsOfGroups(t, SetToSeq(StrataOf(t)))

----------------------------------------------------------------------------
(* The pipeline *)

\* no frame passed yet
NoFrame == <<>>

\* a prepared table as the frame object the caller holds: its columns, the
\* dtype of its identifier column and its rows
Frame(t) == [columns |-> <<"idx_col", "stratum_id">>, idx_dtype |-> "int64",
             rows |-> t]

\* the argument of a handler after handle: StratumMisfitHandler returns it
\* untouched, the others work on the copy _extract_misfits makes
handle_argument(st, f) == f

\* the argument of assign after the call: data[idx_col] is set to
\* astype(object) and data.loc[:, "fake"] = 0 adds a column, both on the
\* caller's object, before data is rebound to the concatenated frame
assign_argument(f) ==
    [columns   |-> IF \E k \in DOMAIN f.columns : f.columns[k] = "fake"
                   THEN f.columns ELSE Append(f.columns, "fake"),
     idx_dtype |-> "object",
     rows      |-> f.rows]

\* the identifier columns tried: n distinct identifiers in ascending and in
\* descending order, and a column that repeats one identifier
IdColumns(n) ==
    {[k \in 1..n |-> k], [k \in 1..n |-> n + 1 - k], [k \in 1..n |-> 1]}

\* the row labels tried: the default RangeIndex, and a repeated label
LabelColumns(n) == {[k \in 1..n |-> k - 1], [k \in 1..n |-> 0]}

\* the raw frames handed to DataPreparator, with the default RangeIndex
RawFrames ==
    UNION {{[k \in 1..n |-> [lab |-> k - 1, id |-> ids[k], strat |-> strats[k]]] :
                ids \in IdColumns(n), strats \in [1..n -> StratumValues]} :
           n \in 0..MaxRows}

\* the tables handed directly to a misfit handler, as the unit tests build
\* them: identifiers 1..n, any stratum ids
Tables ==
    UNION {{[k \in 1..n |-> [lab |-> labs[k], id |-> k, sid |-> sids[k]]] :
                labs \in LabelColumns(n), sids \in [1..n -> TableStrata]} :
           n \in 1..MaxTableRows}

\* the tables of two strata of PairStratumRows rows each, rows in any order
PairTables ==
    {[k \in 1..(2 * PairStratumRows) |-> [lab |-> k - 1, id |-> k, sid |-> sids[k]]] :
        sids \in {f \in [1..(2 * PairStratumRows) -> {0, 1}] :
                     Cardinality({k \in DOMAIN f : f[k] = 0}) = PairStratumRows}}

\* tables handed directly to a misfit handler in which a real stratum
\* already has the id the pooling handler gives to the misfits
CollisionTables ==
    UNION {{[k \in 1..n |-> [lab |-> k - 1, id |-> k, sid |-> sids[k]]] :
                sids \in {f \in [1..n -> {Sentinel, 0}] :
                             \E k \in 1..n : f[k] = Sentinel}} :
           n \in 1..MaxTableRows}

\* the arguments of DataPreparator tried on a frame of n rows
PrepareArgs(n) ==
    {[idx_col |-> "id", stratum_cols |-> "stratum", size |-> sz] :
        sz \in {NoSize} \cup 0..(n + 1)}
    \cup {[idx_col |-> ic, stratum_cols |-> sc, size |-> NoSize] :
        ic \in IdxColChoices, sc \in StratumColChoices}

Init ==
    /\ pc = "new"
    /\ err = ""
    /\ data \in RawFrames
    /\ idx_col = ""
    /\ stratum_cols = ""
    /\ size = NoSize
    /\ prepared = <<>>
    /\ treats = 0
    /\ probs = NoProbs
    /\ spec = NoSpec
    /\ strategy = ""
    /\ handled = <<>>
    /\ out = <<>>
    /\ sample_draw = <<>>
    /\ misfit_draw = <<>>
    /\ perm_draw = <<>>
    /\ drawn = 0
    /\ denominators = <<>>
    /\ lcm_prob_denominators = 0
    /\ mask_counts = <<>>
    /\ units = 0
    /\ arm_counts = <<>>
    /\ argument = NoFrame
    /\ repeated = <<>>

\* a table handed directly to the core, without DataPreparator
InitTable ==
    /\ pc = "table"
    /\ err = ""
    /\ data = <<>>
    /\ idx_col = "id"
    /\ stratum_cols = ""
    /\ size = NoSize
    /\ prepared \in Tables
    /\ treats = 0
    /\ probs = NoProbs
    /\ spec = NoSpec
    /\ strategy = ""
    /\ handled = <<>>
    /\ out = <<>>
    /\ sample_draw = <<>>
    /\ misfit_draw = <<>>
    /\ perm_draw = <<>>
    /\ drawn = 0
    /\ denominators = <<>>
    /\ lcm_prob_denominators = 0
    /\ mask_counts = <<>>
    /\ units = 0
    /\ arm_counts = <<>>
    /\ argument = NoFrame
    /\ repeated = <<>>

\* a table with a real stratum -1 handed directly to the core
InitCollision ==
    /\ pc = "table"
    /\ err = ""
    /\ data = <<>>
    /\ idx_col = "id"
    /\ stratum_cols = ""
    /\ size = NoSize
    /\ prepared \in CollisionTables
    /\ treats = 0
    /\ probs = NoProbs
    /\ spec = NoSpec
    /\ strategy = ""
    /\ handled = <<>>
    /\ out = <<>>
    /\ sample_draw = <<>>
    /\ misfit_draw = <<>>
    /\ perm_draw = <<>>
    /\ drawn = 0
    /\ denominators = <<>>
    /\ lcm_prob_denominators = 0
    /\ mask_counts = <<>>
    /\ units = 0
    /\ arm_counts = <<>>
    /\ argument = NoFrame
    /\ repeated = <<>>

\* TreatmentSpec(treats, probs, random_state)
TreatmentSpec_init ==
    /\ pc \in {"new", "table"}
    /\ \E t \in TreatChoices, ps \in ProbChoices :
        /\ treats' = t
        /\ probs' = ps
        /\ IF TreatmentSpec_error(t, ps) # ""
           THEN /\ pc' = "error"
                /\ err' = TreatmentSpec_error(t, ps)
                /\ spec' = spec
           ELSE /\ pc' = (IF pc = "new" THEN "spec" ELSE "prepared")
                /\ err' = err
                /\ spec' = TreatmentSpec(t, ps)
    /\ UNCHANGED <<data, idx_col, stratum_cols, size, prepared, strategy, handled,
                   out, sample_draw, misfit_draw, perm_draw, drawn, ratio_vars, share_vars, call_vars>>

\* DataPreparator(data, stratum_cols, idx_col, size, random_state).prepare()
prepare ==
    /\ pc = "spec"
    /\ \E a \in PrepareArgs(Len(data)) :
        /\ idx_col' = a.idx_col
        /\ stratum_cols' = a.stratum_cols
        /\ size' = a.size
        /\ LET e == prepare_error(data, a.idx_col, a.stratum_cols, a.size)
               t == with_stratum_id(resolve_idx_col(data, a.idx_col))
           IN  IF e # ""
               THEN /\ pc' = "error"
                    /\ err' = e
                    /\ UNCHANGED <<prepared, sample_draw, drawn>>
               ELSE IF a.size = NoSize
               THEN /\ pc' = "prepared"
                    /\ err' = err
                    /\ prepared' = t
                    /\ UNCHANGED <<sample_draw, drawn>>
               ELSE IF SampleDraws(t, a.size) = {}
               THEN /\ pc' = "error"
                    /\ err' = "ValueError: cannot take a larger sample than population"
                    /\ drawn' \in {drawn, drawn + 1}
                    /\ UNCHANGED <<prepared, sample_draw>>
               ELSE \E sd \in SampleDraws(t, a.size) :
                    /\ pc' = "prepared"
                    /\ err' = err
                    /\ prepared' = subsample(t, sd)
                    /\ sample_draw' = sd
                    /\ drawn' = drawn + 1
    /\ UNCHANGED <<data, treats, probs, spec, strategy, handled, out, misfit_draw,
                   perm_draw, ratio_vars, share_vars, call_vars>>

\* make_misfit_handler(strategy).handle(data, lcm, random_state)
handle ==
    /\ pc = "prepared"
    /\ \E st \in StrategyChoices :
        /\ strategy' = st
        /\ IF st \notin {"stratum", "global", "none"}
           THEN /\ pc' = "error"
                /\ err' = "ValueError: misfit_strategy must be one of"
                /\ UNCHANGED <<handled, misfit_draw, drawn, argument>>
           ELSE \E r \in MisfitDraws(st, prepared) :
                /\ pc' = "handled"
                /\ argument' = handle_argument(st, Frame(prepared))
                /\ err' = err
                /\ misfit_draw' = r
                /\ drawn' = (IF st = "stratum" THEN drawn ELSE drawn + 1)
                /\ handled' = handler_handle(st, prepared, spec.lcm, r)
    /\ UNCHANGED <<data, idx_col, stratum_cols, size, prepared, treats, probs, spec,
                   out, sample_draw, perm_draw, ratio_vars, share_vars, repeated>>

\* TreatmentAssigner(spec).assign(data, idx_col)
assign ==
    /\ pc = "handled"
    /\ argument' = assign_argument(Frame(handled))
    /\ \E perms \in PermDraws(Len(padded(handled, spec.lcm)) \div spec.lcm, spec.lcm) :
        /\ perm_draw' = perms
        /\ drawn' = drawn + 1
        /\ IF assign_error(handled, spec, perms) # ""
           THEN /\ pc' = "error"
                /\ err' = assign_error(handled, spec, perms)
                /\ out' = out
           ELSE /\ pc' = "assigned"
                /\ err' = err
                /\ out' = assign_result(handled, spec, perms)
    /\ UNCHANGED <<data, idx_col, stratum_cols, size, prepared, treats, probs, spec,
                   strategy, handled, sample_draw, misfit_draw, ratio_vars, share_vars,
                   repeated>>

\* a second TreatmentAssigner(spec).assign on an equal table with the same
\* spec object: spec.rng yields the numbers that follow those of the first call
assign_again ==
    /\ pc = "assigned"
    /\ pc' = "assigned_again"
    /\ \E perms \in PermDraws(Len(perm_draw), spec.lcm) :
        /\ perm_draw' = perm_draw \o perms
        /\ repeated' = assign_result(handled, spec, perms)
    /\ drawn' = drawn + 1
    /\ argument' = assign_argument(Frame(handled))
    /\ UNCHANGED <<err, data, idx_col, stratum_cols, size, prepared, treats, probs,
                   spec, strategy, handled, out, sample_draw, misfit_draw,
                   ratio_vars, share_vars>>

\* stochatreat: the runtime check of misfit_strategy, then the generator
stochatreat_check_strategy ==
    /\ pc = "new"
    /\ \E st \in StrategyChoices :
        /\ strategy' = st
        /\ IF st \notin MisfitStrategy
           THEN /\ pc' = "raised"
                /\ err' = "ValueError: misfit_strategy must be one of"
           ELSE /\ pc' = "checked_strategy"
                /\ err' = err
    /\ UNCHANGED <<data, idx_col, stratum_cols, size, prepared, treats, probs, spec,
                   handled, out, sample_draw, misfit_draw, perm_draw, drawn,
                   ratio_vars, share_vars, call_vars>>

\* stochatreat: the treatment ids and the checks of probs
stochatreat_check_probs ==
    /\ pc = "checked_strategy"
    /\ \E t \in TreatChoices, ps \in ProbChoices :
        /\ treats' = t
        /\ probs' = ps
        /\ IF TreatmentSpec_error(t, ps) # ""
           THEN /\ pc' = "raised"
                /\ err' = TreatmentSpec_error(t, ps)
           ELSE /\ pc' = "checked_probs"
                /\ err' = err
    /\ UNCHANGED <<data, idx_col, stratum_cols, size, prepared, spec, strategy,
                   handled, out, sample_draw, misfit_draw, perm_draw, drawn,
                   ratio_vars, share_vars, call_vars>>

\* stochatreat: the checks of the data, the sort, the stratum ids and the
\* sub-sampling
stochatreat_sample ==
    /\ pc = "checked_probs"
    /\ \E a \in PrepareArgs(Len(data)) :
        /\ idx_col' = a.idx_col
        /\ stratum_cols' = a.stratum_cols
        /\ size' = a.size
        /\ LET e == stochatreat_data_error(data, a.idx_col, a.stratum_cols, a.size)
               t == with_stratum_id(resolve_idx_col(data, a.idx_col))
           IN  IF e # ""
               THEN /\ pc' = "raised"
                    /\ err' = e
                    /\ UNCHANGED <<prepared, sample_draw, drawn>>
               ELSE IF a.size = NoSize
               THEN /\ pc' = "sampled"
                    /\ err' = err
                    /\ prepared' = t
                    /\ UNCHANGED <<sample_draw, drawn>>
               ELSE IF SampleDraws(t, a.size) = {}
               THEN /\ pc' = "raised"
                    /\ err' = "ValueError: cannot take a larger sample than population"
                    /\ drawn' \in {drawn, drawn + 1}
                    /\ UNCHANGED <<prepared, sample_draw>>
               ELSE \E sd \in SampleDraws(t, a.size) :
                    /\ pc' = "sampled"
                    /\ err' = err
                    /\ prepared' = subsample(t, sd)
                    /\ sample_draw' = sd
                    /\ drawn' = drawn + 1
    /\ UNCHANGED <<data, treats, probs, spec, strategy, handled, out, misfit_draw,
                   perm_draw, ratio_vars, share_vars, call_vars>>

\* stochatreat: the LCM, the treatment mask and the separation of the global
\* misfits
stochatreat_rearrange ==
    /\ pc = "sampled"
    /\ LET p   == IF probs = NoProbs THEN uniform_probs(treats) ELSE probs
           lcm == get_lcm_prob_denominators(p)
       IN  /\ spec' = [treats |-> treats, probs |-> p, lcm |-> lcm,
                       mask |-> treat_mask_truncated(treats, p, lcm)]
           /\ IF strategy = "global"
              THEN \E sd \in GlobalMisfitDraws(prepared, lcm) :
                    /\ misfit_draw' = sd
                    /\ drawn' = drawn + 1
                    /\ handled' = separate_global_misfits(prepared, sd)
              ELSE /\ handled' = prepared
                   /\ UNCHANGED <<misfit_draw, drawn>>
    /\ pc' = "rearranged"
    /\ UNCHANGED <<err, data, idx_col, stratum_cols, size, prepared, treats, probs,
                   strategy, out, sample_draw, perm_draw, ratio_vars, share_vars, call_vars>>

\* stochatreat: the fake rows, the sort, the permutations and the labels; of
\* the order the sort chose and the permutations drawn the function keeps
\* the labels only
stochatreat_assign ==
    /\ pc = "rearranged"
    /\ \E s \in sort_by_stratum_unstable(with_fake_column(handled)
                                          \o fake_rep(handled, spec.lcm)) :
       \E perms \in PermDraws(Len(s) \div spec.lcm, spec.lcm) :
        /\ drawn' = drawn + 1
        /\ IF mask_index_error(spec.mask, perms)
           THEN /\ pc' = "raised"
                /\ err' = "IndexError: treat_mask"
                /\ out' = out
           ELSE IF Len(perms) * spec.lcm # Len(s)
           THEN /\ pc' = "raised"
                /\ err' = "ValueError: length of values does not match length of index"
                /\ out' = out
           ELSE /\ pc' = "returned"
                /\ err' = err
                /\ out' = drop_fake(s, mask_labels(spec.mask, perms))
    /\ UNCHANGED <<data, idx_col, stratum_cols, size, prepared, treats, probs, spec,
                   strategy, handled, sample_draw, misfit_draw, perm_draw, ratio_vars, share_vars, call_vars>>

\* a probability vector handed to get_lcm_prob_denominators on its own
InitProbs ==
    /\ pc = "probs"
    /\ err = ""
    /\ data = <<>>
    /\ idx_col = ""
    /\ stratum_cols = ""
    /\ size = NoSize
    /\ prepared = <<>>
    /\ probs \in ProbVectors
    /\ treats = Len(probs)
    /\ spec = NoSpec
    /\ strategy = ""
    /\ handled = <<>>
    /\ out = <<>>
    /\ sample_draw = <<>>
    /\ misfit_draw = <<>>
    /\ perm_draw = <<>>
    /\ drawn = 0
    /\ denominators = <<>>
    /\ lcm_prob_denominators = 0
    /\ mask_counts = <<>>
    /\ units = 0
    /\ arm_counts = <<>>
    /\ argument = NoFrame
    /\ repeated = <<>>

\* get_lcm_prob_denominators(probs)
apply_get_lcm_prob_denominators ==
    /\ pc = "probs"
    /\ pc' = "lcm"
    /\ denominators' = prob_denominators(probs)
    /\ lcm_prob_denominators' = get_lcm_prob_denominators(probs)
    /\ UNCHANGED <<err, data, idx_col, stratum_cols, size, prepared, treats, probs,
                   spec, strategy, handled, out, sample_draw, misfit_draw,
                   perm_draw, drawn, mask_counts, share_vars, call_vars>>

\* (lcm_prob_denominators * probs).round().astype(int)
apply_treat_mask_counts ==
    /\ pc = "lcm"
    /\ pc' = "mask"
    /\ mask_counts' = treat_mask_counts(treats, probs, lcm_prob_denominators)
    /\ UNCHANGED <<err, data, idx_col, stratum_cols, size, prepared, treats, probs,
                   spec, strategy, handled, out, sample_draw, misfit_draw,
                   perm_draw, drawn, denominators, lcm_prob_denominators,
                   share_vars, call_vars>>

\* a single stratum of many units, given by its size, and a probability
\* vector for it
InitShares ==
    /\ pc = "probs"
    /\ err = ""
    /\ data = <<>>
    /\ idx_col = ""
    /\ stratum_cols = ""
    /\ size = NoSize
    /\ prepared = <<>>
    /\ probs \in ShareVectors
    /\ treats = Len(probs)
    /\ spec = NoSpec
    /\ strategy = ""
    /\ handled = <<>>
    /\ out = <<>>
    /\ sample_draw = <<>>
    /\ misfit_draw = <<>>
    /\ perm_draw = <<>>
    /\ drawn = 0
    /\ denominators = <<>>
    /\ lcm_prob_denominators = 0
    /\ mask_counts = <<>>
    /\ units \in LargeStrata
    /\ arm_counts = <<>>
    /\ argument = NoFrame
    /\ repeated = <<>>

\* TreatmentAssigner.assign on a single stratum of units rows, by counts: the
\* rows fill units div lcm whole blocks, each a permutation of the mask, and
\* the first units mod lcm places of one more block, whose other places go
\* to the fake rows
apply_assign_counts ==
    /\ pc = "mask"
    /\ units > 0
    /\ drawn' = drawn + 1
    /\ IF SumSeq(mask_counts) < lcm_prob_denominators
       THEN /\ pc' = "error"
            /\ err' = "IndexError: treat_mask"
            /\ arm_counts' = arm_counts
       ELSE \E x \in RemainderCounts(
                        indexable_counts(mask_counts, lcm_prob_denominators),
                        units % lcm_prob_denominators) :
            /\ pc' = "shares"
            /\ err' = err
            /\ arm_counts' =
                   [i \in DOMAIN mask_counts |->
                       (units \div lcm_prob_denominators)
                           * indexable_counts(mask_counts, lcm_prob_denominators)[i]
                       + x[i]]
    /\ UNCHANGED <<data, idx_col, stratum_cols, size, prepared, treats, probs, spec,
                   strategy, handled, out, sample_draw, misfit_draw, perm_draw,
                   ratio_vars, units, call_vars>>

\* the function stochatreat after its checks, its sort and its group
\* numbering have produced a table, with the arguments that passed the checks
InitCallTable ==
    /\ pc = "sampled"
    /\ err = ""
    /\ data = <<>>
    /\ idx_col = "id"
    /\ stratum_cols = "stratum"
    /\ size = NoSize
    /\ prepared \in Tables
    /\ treats \in TreatChoices
    /\ probs \in ProbChoices
    /\ TreatmentSpec_error(treats, probs) = ""
    /\ spec = NoSpec
    /\ strategy \in MisfitStrategy
    /\ handled = <<>>
    /\ out = <<>>
    /\ sample_draw = <<>>
    /\ misfit_draw = <<>>
    /\ perm_draw = <<>>
    /\ drawn = 0
    /\ denominators = <<>>
    /\ lcm_prob_denominators = 0
    /\ mask_counts = <<>>
    /\ units = 0
    /\ arm_counts = <<>>
    /\ argument = NoFrame
    /\ repeated = <<>>

\* the function stochatreat with two arms (lcm 2) on the tables of two
\* strata of PairStratumRows rows each
InitCallPairs ==
    /\ pc = "sampled"
    /\ err = ""
    /\ data = <<>>
    /\ idx_col = "id"
    /\ stratum_cols = "stratum"
    /\ size = NoSize
    /\ prepared \in PairTables
    /\ treats = 2
    /\ probs \in {NoProbs, <<<<1, 2>>, <<1, 2>>>>}
    /\ spec = NoSpec
    /\ strategy \in MisfitStrategy
    /\ handled = <<>>
    /\ out = <<>>
    /\ sample_draw = <<>>
    /\ misfit_draw = <<>>
    /\ perm_draw = <<>>
    /\ drawn = 0
    /\ denominators = <<>>
    /\ lcm_prob_denominators = 0
    /\ mask_counts = <<>>
    /\ units = 0
    /\ arm_counts = <<>>
    /\ argument = NoFrame
    /\ repeated = <<>>

\* the steps of the function stochatreat
stochatreat ==
    \/ stochatreat_check_strategy
    \/ stochatreat_check_probs
    \/ stochatreat_sample
    \/ stochatreat_rearrange
    \/ stochatreat_assign

Next == TreatmentSpec_init \/ prepare \/ handle \/ assign \/ stochatreat

NextTable == TreatmentSpec_init \/ handle \/ assign

\* the whole call, from the raw frame
Spec == Init /\ [][Next]_vars

\* the core alone, on a table handed to it directly
SpecTable == InitTable /\ [][NextTable]_vars

\* the core on a table in which the sentinel id is taken
SpecCollision == InitCollision /\ [][NextTable]_vars

NextCallTable == stochatreat_rearrange \/ stochatreat_assign

\* the second half of the function stochatreat, on tables of up to
\* MaxTableRows rows
SpecCallTable == InitCallTable /\ [][NextCallTable]_vars

\* the second half of the function stochatreat on two strata of equal size
SpecCallPairs == InitCallPairs /\ [][NextCallTable]_vars

NextRepeat == TreatmentSpec_init \/ handle \/ assign \/ assign_again

\* the core on a table handed to it directly, then assign once more with
\* the same TreatmentSpec
SpecRepeat == InitTable /\ [][NextRepeat]_vars

NextShares ==
    \/ apply_get_lcm_prob_denominators
    \/ apply_treat_mask_counts
    \/ apply_assign_counts

\* the shares of the arms in a large single stratum
SpecShares == InitShares /\ [][NextShares]_vars

NextProbs == apply_get_lcm_prob_denominators \/ apply_treat_mask_counts

\* the probability ratio alone: the LCM and the mask counts of a vector
SpecProbs == InitProbs /\ [][NextProbs]_vars

----------------------------------------------------------------------------
(* Properties *)

\* the number of rows of stratum s of table t that carry arm i
CountArm(t, s, i) ==
    Cardinality({k \in DOMAIN t : t[k].sid = s /\ t[k].treat = i})

\* den_i * (count of arm i in stratum s) - num_i * (size of stratum s): the
\* deviation of arm i from its target share, scaled by the denominator
Deviation(t, s, i) ==
    CountArm(t, s, i - 1) * spec.probs[i][2] - StratumSize(t, s) * spec.probs[i][1]

\* every arm of stratum s has exactly its share p_i * size
ExactShares(t, s) == \A i \in 1..spec.treats : Deviation(t, s, i) = 0

\* the identifiers of the rows of stratum s of table t
IdsOfStratum(t, s) == {t[k].id : k \in {j \in DOMAIN t : t[j].sid = s}}

\* C1 (exact fit): after assign, every stratum whose size is a multiple of
\* the block size has exactly p_i * size units in every arm i.
C1_ExactFit ==
    pc = "assigned" =>
        \A s \in StrataOf(handled) \ {NA} :
            (StratumSize(handled, s) % spec.lcm = 0) =>
                /\ StratumSize(out, s) = StratumSize(handled, s)
                /\ ExactShares(out, s)

\* a stratum of two blocks of three, with unequal shares, was assigned next
\* to another stratum
C1_Witness ==
    /\ pc = "assigned"
    /\ spec.lcm = 3
    /\ Cardinality(StrataOf(handled)) = 2
    /\ \E s \in StrataOf(handled) :
        /\ StratumSize(handled, s) = 3
        /\ CountArm(out, s, 0) = 1
        /\ CountArm(out, s, 1) = 2

\* C2 (bounded misfit slack): in every stratum of the output, the sentinel
\* pool included, the count of every arm is less than lcm away from
\* p_i * size.
C2_BoundedSlack ==
    pc = "assigned" =>
        \A s \in StrataOf(out) : \A i \in 1..spec.treats :
            Abs(Deviation(out, s, i)) < spec.lcm * spec.probs[i][2]

\* a stratum that is no multiple of the block size got an arm count off its
\* share, and the pool of misfits did too
C2_Witness ==
    /\ pc = "assigned"
    /\ \E s \in StrataOf(out) \ {Sentinel} :
        /\ StratumSize(out, s) % spec.lcm # 0
        /\ \E i \in 1..spec.treats : Deviation(out, s, i) # 0
    /\ \/ strategy = "stratum"
       \/ /\ Sentinel \in StrataOf(out)
          /\ \E i \in 1..spec.treats : Deviation(out, Sentinel, i) # 0

\* C3 (global-pool exclusivity): under the global strategy every stratum of
\* the output other than the sentinel pool has exact shares.
C3_GlobalPoolExclusive ==
    (pc = "assigned" /\ strategy = "global") =>
        \A s \in StrataOf(out) \ {Sentinel} :
            /\ StratumSize(out, s) % spec.lcm = 0
            /\ ExactShares(out, s)

\* under the global strategy a stratum lost misfits to the pool, kept a
\* block, and the pool itself is off its shares
C3_Witness ==
    /\ pc = "assigned"
    /\ strategy = "global"
    /\ spec.lcm > 1
    /\ Sentinel \in StrataOf(out)
    /\ \E s \in StrataOf(out) \ {Sentinel} :
        StratumSize(out, s) < StratumSize(prepared, s)
    /\ \E i \in 1..spec.treats : Deviation(out, Sentinel, i) # 0

\* C5 (total labelling): under the stratum and global strategies assign
\* raises nothing, and its output has exactly one row per unit of its input,
\* every row with an arm of 0..treats-1 and none of them a placeholder.
C5_TotalLabelling ==
    strategy \in {"stratum", "global"} =>
        /\ pc # "error"
        /\ pc = "assigned" =>
            /\ Len(out) = Len(prepared)
            /\ IdsOf(out) = IdsOf(prepared)
            /\ \A k \in DOMAIN out :
                /\ out[k].treat \in 0..(spec.treats - 1)
                /\ out[k].id # NA

\* an assignment that needed placeholders: a stratum that is no multiple of
\* the block size was padded, assigned and stripped
C5_Witness ==
    /\ pc = "assigned"
    /\ strategy \in {"stratum", "global"}
    /\ fake_rep(handled, spec.lcm) # <<>>
    /\ Len(out) = MaxTableRows

\* C9 (global handler): GlobalMisfitHandler.handle moves exactly
\* size mod lcm rows of every stratum to the sentinel stratum -1 and leaves
\* every other row with its stratum id.
C9_GlobalMovesMisfits ==
    (pc = "handled" /\ strategy = "global") =>
        /\ Len(handled) = Len(prepared)
        /\ IdsOf(handled) = IdsOf(prepared)
        /\ \A s \in StrataOf(prepared) :
            /\ Cardinality(IdsOfStratum(prepared, s) \cap IdsOfStratum(handled, Sentinel))
                   = StratumSize(prepared, s) % spec.lcm
            /\ IdsOfStratum(handled, s) =
                   IdsOfStratum(prepared, s) \ IdsOfStratum(handled, Sentinel)

\* the global handler pooled the misfits of two strata and left rows in
\* one of them
C9_Witness ==
    /\ pc = "handled"
    /\ strategy = "global"
    /\ StratumSize(handled, Sentinel) = 2
    /\ Cardinality(StrataOf(prepared)) = 2
    /\ \A s \in StrataOf(prepared) : StratumSize(prepared, s) % spec.lcm = 1
    /\ \E s \in StrataOf(prepared) : StratumSize(handled, s) = 2

\* the arms by identifier
TreatOf(t) == {<<t[k].id, t[k].treat>> : k \in DOMAIN t}

\* the table prepare returns for frame d under the recorded arguments and
\* sample draw
prepared_of(d) ==
    LET t == with_stratum_id(resolve_idx_col(d, idx_col))
    IN  IF size = NoSize THEN t ELSE subsample(t, sample_draw)

\* the table the misfit handler returns for frame d under the recorded
\* strategy and draw
handled_of(d) == handler_handle(strategy, prepared_of(d), spec.lcm, misfit_draw)

\* the frame d with its rows, labels included, in the order p
shuffled(d, p) == [k \in DOMAIN d |-> d[p[k]]]

\* C4 (determinism keyed by identity): with the same seed (the same draws)
\* and misfit strategy, the call on the input with its rows in any other
\* order succeeds as well and gives every identifier the same arm.
C4_ShuffleInvariant ==
    pc = "assigned" =>
        \A p \in PermSeqs(Len(data)) :
            \A h \in {handled_of(shuffled(data, p))} :
                /\ prepare_error(shuffled(data, p), idx_col, stratum_cols, size) = ""
                /\ assign_error(h, spec, perm_draw) = ""
                /\ TreatOf(assign_result(h, spec, perm_draw)) = TreatOf(out)

\* a call on a frame that is not in identifier order, whose units share a
\* stratum and got different arms
C4_Witness ==
    /\ pc = "assigned"
    /\ idx_col = "id"
    /\ Len(data) = MaxRows
    /\ data[1].id > data[2].id
    /\ \E j, k \in DOMAIN out :
        out[j].sid = out[k].sid /\ out[j].treat # out[k].treat

\* the number of distinct values of the stratification column
n_strata == Cardinality({data[k].strat : k \in DOMAIN data})

C7_Stated ==
    (strategy = "none" /\ pc \in {"assigned", "error"}) =>
        /\ pc = "assigned"
        /\ Len(out) = Len(prepared)
        /\ \A k \in DOMAIN out :
            IF out[k].sid = NA THEN out[k].treat = NA
            ELSE out[k].treat \in 0..(spec.treats - 1)

\* C8 as stated (sub-sampling size): with size given, prepare returns
\* exactly size rows.
C8_Stated ==
    (pc \in {"prepared", "handled", "assigned"} /\ size # NoSize) =>
        Len(prepared) = size

\* C10 as stated (none handler): NoneMisfitHandler.handle gives a null
\* stratum id to exactly size mod lcm rows of every stratum, whatever the row
\* labels, and leaves the other rows with their stratum id.
C10_Stated ==
    (pc = "handled" /\ strategy = "none") =>
        /\ Len(handled) = Len(prepared)
        /\ \A s \in StrataOf(prepared) :
            /\ Cardinality(IdsOfStratum(prepared, s) \cap IdsOfStratum(handled, NA))
                   = StratumSize(prepared, s) % spec.lcm
            /\ IdsOfStratum(handled, s) =
                   IdsOfStratum(prepared, s) \ IdsOfStratum(handled, NA)

\* C11 (keep-in-stratum handler): StratumMisfitHandler.handle returns the
\* table it was given, every row with its label, id and stratum id in the
\* same place, and draws no random number.
C11_StratumIdentity ==
    (pc = "handled" /\ strategy = "stratum") =>
        /\ handled = prepared
        /\ misfit_draw = <<>>
        /\ drawn = 0

\* the handler has been given a table of two strata, one of which has misfits
C11_Witness ==
    /\ pc = "handled"
    /\ strategy = "stratum"
    /\ handled = prepared
    /\ Cardinality(StrataOf(prepared)) = 2
    /\ \E s \in StrataOf(prepared) : StratumSize(prepared, s) % spec.lcm # 0

RECURSIVE DenominatorProduct(_)
\* the product of the denominators of the fractions ps
DenominatorProduct(ps) ==
    IF ps = <<>> THEN 1 ELSE Head(ps)[2] * DenominatorProduct(Tail(ps))

\* the sum of the fractions ps is exactly 1: the numerators, brought to the
\* product of the denominators, add up to it (the vectors tried either sum
\* to 1 or miss it by far more than the tolerance of 1e-9)
SumsToOne(ps) ==
    LET den == DenominatorProduct(ps)
    IN  SumSeq([i \in DOMAIN ps |-> ps[i][1] * (den \div ps[i][2])]) = den

\* the arguments TreatmentSpec.__init__ has to refuse
InvalidProbabilities ==
    probs # NoProbs /\ (~SumsToOne(probs) \/ Len(probs) # treats)

\* C12 (probability validation): TreatmentSpec(treats, probs) raises a
\* ValueError and builds no spec exactly when probs is given and does not sum
\* to 1 or has a length other than treats; otherwise the spec is built, with
\* the probabilities given or, probs omitted, 1/treats for every arm.
C12_ProbabilityValidation ==
    (treats # 0) =>
        IF InvalidProbabilities
        THEN /\ pc = "error"
             /\ err \in {"ValueError: probabilities must add up to 1",
                         "ValueError: number of probabilities"}
             /\ spec = NoSpec
        ELSE /\ spec # NoSpec
             /\ spec.treats = treats
             /\ Len(spec.probs) = treats
             /\ IF probs = NoProbs
                THEN \A i \in 1..treats : spec.probs[i] = <<1, treats>>
                ELSE spec.probs = probs

\* three arms were asked for with two probabilities that sum to 1: refused
C12_Witness ==
    /\ treats = 3
    /\ Len(probs) = 2
    /\ SumsToOne(probs)
    /\ pc = "error"
    /\ err = "ValueError: number of probabilities"
    /\ spec = NoSpec

\* the values of the identifier column the arguments name: the id column, or
\* the row labels when idx_col is None
IdxValues ==
    IF idx_col = "<None>" THEN {data[k].lab : k \in DOMAIN data}
    ELSE {data[k].id : k \in DOMAIN data}

\* the arguments DataPreparator.prepare accepts
ValidInput ==
    /\ Len(data) >= 2
    /\ idx_col \in {"<None>", "id"}
    /\ stratum_cols = "stratum"
    /\ Cardinality(IdxValues) = Len(data)
    /\ size = NoSize \/ size <= Len(data)

\* C13 (input validation gate): prepare returns a table only for a frame of
\* at least 2 rows with pairwise distinct identifiers, an idx_col that is
\* None or names a column, stratum columns that exist and a size of at most
\* the number of rows; for any other input it raises one of its errors and
\* no table is returned.
C13_ValidationGate ==
    (idx_col # "" /\ pc \in {"error", "prepared", "handled", "assigned"}) =>
        /\ pc \in {"prepared", "handled", "assigned"} => ValidInput
        /\ ~ValidInput =>
            /\ pc = "error"
            /\ prepared = <<>>
            /\ err \in {"ValueError: dataframe is empty",
                        "ValueError: at least 2 rows",
                        "TypeError: idx_col has to be a string",
                        "KeyError: columns not found",
                        "ValueError: idx_col not unique",
                        "ValueError: size larger than universe"}

\* a frame of three rows with a repeated identifier has been refused
C13_Witness ==
    /\ idx_col = "id"
    /\ stratum_cols = "stratum"
    /\ Len(data) = 3
    /\ Cardinality(IdxValues) < 3
    /\ pc = "error"
    /\ err = "ValueError: idx_col not unique"
    /\ prepared = <<>>

\* the positions of a call of the function stochatreat
InStochatreat ==
    pc \in {"checked_strategy", "checked_probs", "sampled", "rearranged",
            "returned", "raised"}

\* C14 (strategy selection): make_misfit_handler gives "stratum" the
\* keep-in-stratum handler, "global" the pooling handler and "none" the
\* mark-unassigned handler, and raises a ValueError for any other name; the
\* function stochatreat raises the same error for a name it does not know,
\* before it does anything else.
C14_StrategySelection ==
    /\ (pc \in {"handled", "assigned"}) =>
        /\ strategy \in {"stratum", "global", "none"}
        /\ strategy = "stratum" =>
               handled = StratumMisfitHandler_handle(prepared, spec.lcm, misfit_draw)
        /\ strategy = "global" =>
               handled = GlobalMisfitHandler_handle(prepared, spec.lcm, misfit_draw)
        /\ strategy = "none" =>
               handled = NoneMisfitHandler_handle(prepared, spec.lcm, misfit_draw)
    /\ (strategy \notin {"", "stratum", "global", "none"}) =>
        /\ pc \in {"error", "raised"}
        /\ err = "ValueError: misfit_strategy must be one of"
        /\ handled = <<>>
        /\ out = <<>>
        /\ pc = "raised" => (treats = 0 /\ idx_col = "" /\ drawn = 0)

\* "global" was asked for and the handler pooled a misfit under the sentinel
C14_Witness ==
    /\ pc = "handled"
    /\ strategy = "global"
    /\ Sentinel \in StrataOf(handled)
    /\ Sentinel \notin StrataOf(prepared)
    /\ Len(handled) = 3

\* the errors the validation of the arguments raises
ValidationErrors ==
    {"ValueError: misfit_strategy must be one of",
     "ValueError: probabilities must add up to 1",
     "ValueError: number of probabilities",
     "ValueError: dataframe is empty",
     "ValueError: at least 2 rows",
     "TypeError: idx_col has to be a string",
     "KeyError: columns not found",
     "ValueError: idx_col not unique",
     "ValueError: size larger than universe"}

\* C15 (eager failure): in a call of stochatreat every validation error is
\* raised with no random number drawn and nothing returned, so a call that
\* has drawn (sub-sampling, misfit selection or permutation) has a known
\* strategy, valid probs and valid data; the same holds inside
\* TreatmentSpec.__init__ and DataPreparator.prepare.
C15_EagerFailure ==
    /\ (pc = "raised" /\ err \in ValidationErrors) =>
        /\ drawn = 0
        /\ sample_draw = <<>> /\ misfit_draw = <<>> /\ perm_draw = <<>>
        /\ out = <<>>
    /\ pc = "raised" => out = <<>>
    /\ (InStochatreat /\ drawn > 0) =>
        /\ strategy \in MisfitStrategy
        /\ ~InvalidProbabilities
        /\ ValidInput
    /\ (pc = "error" /\ err \in ValidationErrors
                    /\ err # "ValueError: misfit_strategy must be one of") =>
        /\ drawn = 0
        /\ out = <<>>

\* a call asked for a sample larger than the frame and was refused before
\* the sub-sampling drew
C15_Witness ==
    /\ pc = "raised"
    /\ size # NoSize
    /\ size > Len(data)
    /\ err = "ValueError: size larger than universe"
    /\ drawn = 0
    /\ out = <<>>

\* the denominator of the fraction p in lowest terms
ReducedDenominator(p) == p[2] \div Gcd(p[1], p[2])

\* l is the least positive integer that every element of dens divides
IsLeastCommonMultiple(l, dens) ==
    /\ l >= 1
    /\ \A i \in DOMAIN dens : l % dens[i] = 0
    /\ \A m \in 1..(l - 1) : \E i \in DOMAIN dens : m % dens[i] # 0

C17_Stated ==
    (pc \in {"lcm", "mask"}) =>
        \A i \in DOMAIN probs :
            probs[i] = <<142857, 1000000>> => denominators[i] = 7

\* C18 as stated (treat-mask invariant): for every valid TreatmentSpec every
\* arm i is repeated round(probs[i] * lcm) times and the counts sum to lcm,
\* the length of the mask.
C18_Stated ==
    (pc = "mask") =>
        /\ \A i \in 1..treats :
               mask_counts[i] =
                   RoundProduct(lcm_prob_denominators, probs[i][1], probs[i][2])
        /\ SumSeq(mask_counts) = lcm_prob_denominators

\* C19 as stated (sentinel collision): the pooling handler, given a table
\* in which -1 is already the stratum id of a real stratum, raises an error
\* and returns no table.
C19_Stated ==
    (strategy = "global" /\ Sentinel \in StrataOf(prepared)) =>
        /\ pc = "error"
        /\ handled = <<>>

\* C20 as stated (prepared table): prepare returns a table of exactly the
\* columns idx_col and stratum_id (next to the row labels) whose rows are in
\* ascending order of idx_col, with or without a size argument.
C20_Stated ==
    (pc = "prepared") =>
        /\ \A k \in DOMAIN prepared : DOMAIN prepared[k] = {"lab", "id", "sid"}
        /\ \A j, k \in DOMAIN prepared :
               j < k => prepared[j].id < prepared[k].id

\* the (row label, identifier) pairs of a table
LabelIdPairs(t) == {<<t[k].lab, t[k].id>> : k \in DOMAIN t}

ToleranceDenominator == 100

\* |count / n - p| <= 1/ToleranceDenominator for the fraction p, compared on
\* the quotient and remainder of ToleranceDenominator * n * p
WithinTolerance(count, n, p) ==
    LET t == CHOOSE x \in {MulDiv(ToleranceDenominator * n, p[1], p[2])} : TRUE
        c == ToleranceDenominator * count
    IN  /\ c - n <= t[1]
        /\ t[1] < c + n \/ (t[1] = c + n /\ t[2] = 0)

\* C22 as stated (proportion convergence): in a single stratum of at least
\* 10,000 units the share of every arm is within 0.01 of its probability,
\* for any probs that sum to 1.
C22_Stated ==
    (pc = "shares") =>
        \A i \in 1..treats : WithinTolerance(arm_counts[i], units, probs[i])

\* how often arm i occurs in the treatment mask
MaskCount(i) == Cardinality({j \in DOMAIN spec.mask : spec.mask[j] = i})

\* what the rows of stratum s got of arm i beyond the whole blocks
RemainderOfArm(s, i) ==
    CountArm(out, s, i)
        - (StratumSize(handled, s) \div spec.lcm) * MaskCount(i)

\* C23 as stated (remainder of a stratum): under "stratum" the rows of a
\* stratum of size q*lcm + r fill q whole blocks and share one block with
\* the fake rows, so arm i has q*m_i + x_i rows with 0 <= x_i <= min(r, m_i)
\* and the x_i sum to r; no random numbers are drawn to pick misfits.
C23_Stated ==
    (pc \in {"assigned", "returned"} /\ strategy = "stratum") =>
        /\ misfit_draw = <<>>
        /\ drawn = 1
        /\ \A s \in StrataOf(handled) :
            /\ \A i \in 0..(spec.treats - 1) :
                /\ RemainderOfArm(s, i) >= 0
                /\ RemainderOfArm(s, i) <= MaskCount(i)
                /\ RemainderOfArm(s, i) <= StratumSize(handled, s) % spec.lcm
            /\ SumSeq([i \in 1..spec.treats |-> RemainderOfArm(s, i - 1)])
                   = StratumSize(handled, s) % spec.lcm

\* the rows of block b of a table cut into runs of lcm rows
BlockRows(b, lcm) == ((b - 1) * lcm + 1)..(b * lcm)

\* C24 as stated (block alignment): whenever assign has run, every stratum
\* got (lcm - size mod lcm) mod lcm fake rows, the padded and sorted table
\* has a multiple of lcm rows, as many labels were generated as there are
\* rows, and every run of lcm rows lies within one stratum and gets arm i
\* exactly m_i times.
C24_Stated ==
    (pc \in {"assigned", "error"} /\ handled # <<>>) =>
        LET lcm    == spec.lcm
            t      == CHOOSE x \in {padded(handled, lcm)} : TRUE
        IN  /\ \A s \in StrataOf(handled) \ {NA} :
                   Cardinality({k \in DOMAIN t : t[k].sid = s /\ t[k].fake = 1})
                       = pad_count(StratumSize(handled, s), lcm)
            /\ Len(t) % lcm = 0
            /\ Len(perm_draw) * lcm = Len(t)
            /\ ~mask_index_error(spec.mask, perm_draw)
            /\ \A b \in DOMAIN perm_draw :
                /\ \A j, k \in BlockRows(b, lcm) : t[j].sid = t[k].sid
                /\ \A i \in 0..(spec.treats - 1) :
                       Cardinality({j \in DOMAIN perm_draw[b] :
                                       spec.mask[perm_draw[b][j]] = i})
                           = MaskCount(i)

\* the rows of a table as a set
RowSet(t) == {t[k] : k \in DOMAIN t}

\* C25 (_extract_misfits partitions its input): every row of the input is
\* in exactly one of the two results with its label, id and stratum_id; the
\* misfits of a stratum are its (size mod lcm) rows with the smallest random
\* values; the good-form rows of a stratum number a multiple of lcm; no row
\* of either result has the column _random.
C25_ExtractMisfitsPartitions ==
    (pc = "handled" /\ strategy \in {"global", "none"}) =>
        LET lcm == spec.lcm
            x   == CHOOSE y \in {_extract_misfits(prepared, lcm, misfit_draw)} : TRUE
        IN  /\ RowSet(x.good) \cup RowSet(x.misfit) = RowSet(prepared)
            /\ RowSet(x.good) \cap RowSet(x.misfit) = {}
            /\ Len(x.good) + Len(x.misfit) = Len(prepared)
            /\ RowSet(x.misfit) =
                   {prepared[k] : k \in {j \in DOMAIN prepared :
                       misfit_draw[j] <= StratumSize(prepared, prepared[j].sid) % lcm}}
            /\ \A s \in StrataOf(prepared) :
                /\ StratumSize(x.misfit, s) = StratumSize(prepared, s) % lcm
                /\ StratumSize(x.good, s) % lcm = 0
            /\ \A row \in RowSet(x.good) \cup RowSet(x.misfit) :
                   DOMAIN row = {"lab", "id", "sid"}

\* a stratum of three or more rows gives up some of them and keeps others
C25_Witness ==
    /\ pc = "handled"
    /\ strategy \in {"global", "none"}
    /\ \E s \in StrataOf(prepared) :
        /\ StratumSize(prepared, s) >= 3
        /\ StratumSize(_extract_misfits(prepared, spec.lcm, misfit_draw).misfit, s) >= 1
        /\ StratumSize(_extract_misfits(prepared, spec.lcm, misfit_draw).good, s) >= 2
        /\ \E j, k \in DOMAIN prepared :
               j < k /\ prepared[j].sid = s /\ prepared[k].sid = s
                     /\ misfit_draw[k] < misfit_draw[j]

\* the choices of misfits: size mod lcm rows of every stratum
MisfitChoices(t, lcm) ==
    {S \in SUBSET (DOMAIN t) :
        \A s \in StrataOf(t) :
            Cardinality({k \in S : t[k].sid = s}) = StratumSize(t, s) % lcm}

\* the lcm the function stochatreat computes from its arguments
lcm_of_call ==
    get_lcm_prob_denominators(IF probs = NoProbs THEN uniform_probs(treats) ELSE probs)

\* C26 as stated (independent misfit selection): for every choice of
\* size mod lcm rows in every stratum some outcome of the random draw makes
\* exactly these rows the misfits, in _extract_misfits and in the pooling of
\* misfits of the function stochatreat.
C26_Stated ==
    /\ (pc = "prepared" /\ spec # NoSpec) =>
          \A S \in MisfitChoices(prepared, spec.lcm) :
              \E r \in MisfitDraws("global", prepared) :
                  IdsOf(_extract_misfits(prepared, spec.lcm, r).misfit)
                      = {prepared[k].id : k \in S}
    /\ (pc = "sampled" /\ strategy = "global") =>
          \A S \in MisfitChoices(prepared, lcm_of_call) :
              \E sd \in GlobalMisfitDraws(prepared, lcm_of_call) :
                  IdsOf(subsample(prepared, sd)) = {prepared[k].id : k \in S}

\* the (identifier, stratum_id) pairs of a table
IdStratumPairs(t) == {<<t[k].id, t[k].sid>> : k \in DOMAIN t}

\* the frame with its rows in the order a
Reordered(d, a) == [k \in DOMAIN d |-> d[a[k]]]

\* the stratum_id the prepared table has for an identifier
StratumIdOf(id) == (CHOOSE row \in RowSet(prepared) : row.id = id).sid

\* C27 (stratum numbering): without sub-sampling two units have the same
\* stratum_id exactly when they have the same stratification value, the
\* stratum ids are 0, ..., k-1 for k distinct values, and every reordering of
\* the rows of the input gives every unit the same stratum_id.
C27_StratumNumbering ==
    (pc \in {"prepared", "sampled"} /\ data # <<>> /\ size = NoSize) =>
        LET d == resolve_idx_col(data, idx_col)
        IN  /\ \A j, k \in DOMAIN d :
                   (StratumIdOf(d[j].id) = StratumIdOf(d[k].id))
                       <=> (d[j].strat = d[k].strat)
            /\ StrataOf(prepared)
                   = 0..(Cardinality({d[k].strat : k \in DOMAIN d}) - 1)
            /\ \A a \in PermSeqs(Len(data)) :
                   IdStratumPairs(with_stratum_id(
                       resolve_idx_col(Reordered(data, a), idx_col)))
                       = IdStratumPairs(prepared)

\* three units in two strata, the unit of the higher stratification value
\* first in the frame and last by identifier
C27_Witness ==
    /\ pc = "prepared"
    /\ size = NoSize
    /\ Len(data) = 3
    /\ Cardinality(StrataOf(prepared)) = 2
    /\ data[1].strat > data[2].strat
    /\ data[1].id > data[2].id
    /\ prepared[3].sid = 1

\* the (identifier, treat) pairs of a table
TreatPairs(t) == {<<t[k].id, t[k].treat>> : k \in DOMAIN t}

\* C28 as stated (no state carried across invocations): a second assign with
\* the same TreatmentSpec on an equal table returns the same treat for every
\* identifier as the first.
C28_Stated ==
    (pc = "assigned_again") => TreatPairs(repeated) = TreatPairs(out)

\* C29 as stated (input table left unchanged): after a handler's handle and
\* after assign, the frame that was passed in has the columns, the rows and
\* the identifier dtype it had before the call.
C29_Stated ==
    /\ (pc = "handled") => argument = Frame(prepared)
    /\ (pc = "assigned") => argument = Frame(handled)

\* C30 (sub-sampling never over-draws): with 0 <= size <= n the sampling of
\* a stratum never fails; the share round(size * stratum_size / n) asked of
\* every stratum is at most its size, the sample has that many of its rows,
\* and every sampled unit has the stratum_id it had before the sampling.
C30_SubsamplingNeverOverdraws ==
    /\ err # "ValueError: cannot take a larger sample than population"
    /\ (pc \in {"prepared", "sampled"} /\ data # <<>> /\ size # NoSize) =>
          LET t == CHOOSE x \in {with_stratum_id(resolve_idx_col(data, idx_col))} : TRUE
          IN  /\ size >= 0
              /\ size <= Len(t)
              /\ SampleDraws(t, size) # {}
              /\ \A s \in StrataOf(t) :
                  /\ reduced_size(StratumSize(t, s), Len(t), size) <= StratumSize(t, s)
                  /\ StratumSize(prepared, s)
                         = reduced_size(StratumSize(t, s), Len(t), size)
              /\ IdStratumPairs(prepared) \subseteq IdStratumPairs(t)
              /\ Cardinality(IdsOf(prepared)) = Len(prepared)

\* two of three units are sampled, one from each of two strata
C30_Witness ==
    /\ pc = "prepared"
    /\ size = 2
    /\ Len(data) = 3
    /\ Len(prepared) = 2
    /\ Cardinality(StrataOf(prepared)) = 2

====
